---- MODULE Spec2Model ----
(***************************************************************************)
(* Model of EVTE.py: the cash-flow model calcular_indicadores and the      *)
(* Monte Carlo driver simular_monte_carlo behind the Streamlit dashboard.  *)
(*                                                                         *)
(* Arithmetic is fixed point over TLC's integers.  Units:                  *)
(*   money                 thousands of US$   (45,000,000 US$ = 45000)     *)
(*   preco, custo          tenths of US$/barrel       (70.0 = 700)         *)
(*   eficiencia            hundredths of a percentage point (15.0 = 1500)  *)
(*   declinio              hundredths of a percent     (5.0 = 500)         *)
(*   production per day    tenths of a barrel per day  (2000 = 20000)      *)
(*   production per year   barrels                                         *)
(*   fator_desconto        ten-thousandths             (1.0 = 10000)       *)
(* A product is divided back as soon as it is formed (\div rounds down),   *)
(* where the source rounds to the nearest double.  TIR and Payback, whose  *)
(* claims turn on strict comparisons, are kept as exact fractions.         *)
(***************************************************************************)
EXTENDS Integers, Sequences, FiniteSets, TLC

VARIABLES
    sliders,               \* the sidebar widgets: num_simulacoes and the six range sliders
    sessao,                \* st.session_state: the stored table and the inputs of the run that made it
    rng,                   \* state of the process-wide numpy random source
    pc,                    \* position of the script
    i,                     \* loop counter of simular_monte_carlo
    resultados,            \* the list simular_monte_carlo is building
    parametros_simulacao,  \* the sample of the current iteration / evaluation
    indicadores            \* what calcular_indicadores returned for it

vars == <<sliders, sessao, rng, pc, i, resultados, parametros_simulacao, indicadores>>

Nenhum == [nenhum |-> TRUE]

(***************************************************************************)
(* Bounds of the model.                                                    *)
(***************************************************************************)
\* The "Número de Simulações" slider is scaled down to 1..MaxSimulacoes.
MaxSimulacoes == 2
\* Inputs of a direct evaluation: each parameter takes GradePassos + 1 evenly
\* spaced values over the widest range the sliders allow, plus its base value.
GradePassos == 2

(***************************************************************************)
(* parametros_base                                                         *)
(***************************************************************************)
preco_petroleo == 700
investimento_total == 45000
incremento_recuperacao == 1500
custo_operacional == 80
taxa_declinio == 500
taxa_minima_atratividade == 12
anos_projeto == 15
custo_polimero == 22
custos_fixos_anuais == 1500

Anos == 0..anos_projeto

Max(a, b) == IF a >= b THEN a ELSE b
Abs(a) == IF a >= 0 THEN a ELSE -a

(***************************************************************************)
(* calcular_indicadores, step by step.  Every list of the source is a      *)
(* function over the years 0..anos_projeto, tabulated once it is built.    *)
(***************************************************************************)
RECURSIVE Ate(_, _)
Ate(f, k) == IF k = 0 THEN (0 :> f[0]) ELSE (k :> f[k]) @@ Ate(f, k - 1)

\* the list with the entries f[0], ..., f[anos_projeto]
Lista(f) == Ate(f, anos_projeto)

\* bpd of the first five years, in tenths of a barrel
producao_base == [ano \in 0..4 |->
    IF ano = 0 THEN 0 ELSE IF ano = 1 THEN 5000 ELSE IF ano = 2 THEN 12000
    ELSE IF ano = 3 THEN 18000 ELSE 20000]

\* Variant: the decline applied with the wrong sign, 1 + declinio / 100.
ProducaoAjustadaCrescente(eficiencia, declinio) ==
    LET prod[ano \in Anos] ==
            IF ano < 5 THEN (producao_base[ano] * eficiencia) \div incremento_recuperacao
            ELSE (prod[ano - 1] * (10000 + declinio)) \div 10000
    IN Lista(prod)

\* p * fator_eficiencia for the first five years, then
\* producao_anterior * (1 - declinio / 100)
ProducaoAjustada(eficiencia, declinio) ==
    LET prod[ano \in Anos] ==
            IF ano < 5 THEN (producao_base[ano] * eficiencia) \div incremento_recuperacao
            ELSE (prod[ano - 1] * (10000 - declinio)) \div 10000
    IN Lista(prod)

\* p * 365, in barrels
ProducaoAnual(producao_ajustada) ==
    Lista([ano \in Anos |-> (producao_ajustada[ano] * 365) \div 10])

\* p * preco * 0.9, in thousands of US$
ReceitaBruta(producao_anual, preco) ==
    Lista([ano \in Anos |-> (((producao_anual[ano] * preco) \div 10000) * 9) \div 10])

\* r * 0.1
Royalties(receita_bruta) == Lista([ano \in Anos |-> receita_bruta[ano] \div 10])

\* r - roy
ReceitaLiquida(receita_bruta, royalties) ==
    Lista([ano \in Anos |-> receita_bruta[ano] - royalties[ano]])

Investimentos(investimento) == Lista([ano \in Anos |->
    IF ano = 0 THEN (investimento * 5) \div 10
    ELSE IF ano = 1 THEN (investimento * 3) \div 10
    ELSE IF ano = 2 THEN (investimento * 2) \div 10
    ELSE 0])

\* Variant: custos_fixos[0] = 0 left out.
CustosFixosDesdeAnoZero == [ano \in Anos |-> custos_fixos_anuais]

CustosFixos == [ano \in Anos |-> IF ano = 0 THEN 0 ELSE custos_fixos_anuais]

\* f + v + p, with v = p * custo and p = p * custo_polimero
CustosTotais(producao_anual, custo) == Lista([ano \in Anos |->
    CustosFixos[ano]
    + (producao_anual[ano] * custo) \div 10000
    + (producao_anual[ano] * custo_polimero) \div 10000])

\* valor_depreciavel / 10 in the years 1..min(10, anos_projeto)
Depreciacao(investimento) == Lista([ano \in Anos |->
    IF ano >= 1 /\ ano < (IF 11 <= anos_projeto + 1 THEN 11 ELSE anos_projeto + 1)
    THEN ((investimento * 8) \div 10) \div 10
    ELSE 0])

\* r - c - d
LucroAntesImpostos(receita_liquida, custos_totais, depreciacao) ==
    Lista([ano \in Anos |-> receita_liquida[ano] - custos_totais[ano] - depreciacao[ano]])

\* max(0, l * 0.34)
Impostos(lucro_antes_impostos) ==
    Lista([ano \in Anos |-> Max(0, (lucro_antes_impostos[ano] * 34) \div 100)])

\* l - i
LucroLiquido(lucro_antes_impostos, impostos) ==
    Lista([ano \in Anos |-> lucro_antes_impostos[ano] - impostos[ano]])

\* ll + d - inv
FluxoDe(lucro_liquido, depreciacao, investimentos) ==
    Lista([ano \in Anos |-> lucro_liquido[ano] + depreciacao[ano] - investimentos[ano]])

LucroDe(receita_bruta, custos_totais, depreciacao) ==
    LucroAntesImpostos(ReceitaLiquida(receita_bruta, Royalties(receita_bruta)),
                       custos_totais, depreciacao)

FluxoDoLucro(lucro_antes_impostos, depreciacao, investimentos) ==
    FluxoDe(LucroLiquido(lucro_antes_impostos, Impostos(lucro_antes_impostos)),
            depreciacao, investimentos)

FluxoDaProducao(producao_anual, depreciacao, p) ==
    FluxoDoLucro(LucroDe(ReceitaBruta(producao_anual, p.preco),
                         CustosTotais(producao_anual, p.custo), depreciacao),
                 depreciacao, Investimentos(p.investimento))

\* fluxo_caixa of the sample p
FluxoCaixa(p) ==
    FluxoDaProducao(ProducaoAnual(ProducaoAjustada(p.eficiencia, p.declinio)),
                    Depreciacao(p.investimento), p)

\* 1 / (1 + taxa_minima_atratividade / 100) ** ano
fator_desconto ==
    LET fd[ano \in Anos] ==
            IF ano = 0 THEN 10000 ELSE (fd[ano - 1] * 100) \div (100 + taxa_minima_atratividade)
    IN Lista(fd)

\* fc * fd
FluxoCaixaDescontado(fluxo_caixa) ==
    Lista([ano \in Anos |-> (fluxo_caixa[ano] * fator_desconto[ano]) \div 10000])

\* np.cumsum
FluxoAcumulado(fluxo_caixa_descontado) ==
    LET acc[ano \in Anos] ==
            IF ano = 0 THEN fluxo_caixa_descontado[0]
            ELSE acc[ano - 1] + fluxo_caixa_descontado[ano]
    IN Lista(acc)

\* sum(fluxo_caixa_descontado)
Vpl(fluxo_caixa_descontado) == FluxoAcumulado(fluxo_caixa_descontado)[anos_projeto]

\* A fraction num/den with den > 0.
Frac(num, den) == [num |-> num, den |-> den]

\* Variant: min(tir, 50) left out.
TirSemTeto(vpl, investimento) ==
    IF vpl <= 0 THEN Frac(0, 1)
    ELSE Frac(vpl * 15 + 12 * investimento, investimento)

\* Variant: the + 12 left out.
TirSemTma(vpl, investimento) ==
    IF vpl <= 0 THEN Frac(0, 1)
    ELSE IF vpl * 15 > 50 * investimento THEN Frac(50, 1)
    ELSE Frac(vpl * 15, investimento)

\* 0 when vpl <= 0, otherwise min((vpl / investimento) * 15 + 12, 50)
Tir(vpl, investimento) ==
    IF vpl <= 0 THEN Frac(0, 1)
    ELSE IF vpl * 15 + 12 * investimento > 50 * investimento THEN Frac(50, 1)
    ELSE Frac(vpl * 15 + 12 * investimento, investimento)

\* Payback as inteiro + num/den.
Pb(inteiro, num, den) == [inteiro |-> inteiro, num |-> num, den |-> den]

Cruzamentos(fluxo_acumulado) ==
    {k \in 1..anos_projeto : fluxo_acumulado[k - 1] < 0 /\ fluxo_acumulado[k] >= 0}

Primeiro(S) == CHOOSE k \in S : \A m \in S : k <= m

\* Variant: the never-recovered branch gives len(fluxo_acumulado).
PaybackComprimento(fluxo_acumulado) ==
    IF \A ano \in Anos : fluxo_acumulado[ano] < 0
    THEN Pb(anos_projeto + 1, 0, 1)
    ELSE IF Cruzamentos(fluxo_acumulado) # {}
         THEN LET k == Primeiro(Cruzamentos(fluxo_acumulado))
              IN Pb(k - 1, Abs(fluxo_acumulado[k - 1]),
                    Abs(fluxo_acumulado[k] - fluxo_acumulado[k - 1]))
         ELSE Pb(0, 0, 1)

\* Variant: the interpolation starts from i instead of i - 1.
PaybackSemRecuo(fluxo_acumulado) ==
    IF \A ano \in Anos : fluxo_acumulado[ano] < 0
    THEN Pb(anos_projeto, 0, 1)
    ELSE IF Cruzamentos(fluxo_acumulado) # {}
         THEN LET k == Primeiro(Cruzamentos(fluxo_acumulado))
              IN Pb(k, Abs(fluxo_acumulado[k - 1]),
                    Abs(fluxo_acumulado[k] - fluxo_acumulado[k - 1]))
         ELSE Pb(0, 0, 1)

\* Variant: any(...) in place of all(...).
PaybackAlgumNegativo(fluxo_acumulado) ==
    IF \E ano \in Anos : fluxo_acumulado[ano] < 0
    THEN Pb(anos_projeto, 0, 1)
    ELSE IF Cruzamentos(fluxo_acumulado) # {}
         THEN LET k == Primeiro(Cruzamentos(fluxo_acumulado))
              IN Pb(k - 1, Abs(fluxo_acumulado[k - 1]),
                    Abs(fluxo_acumulado[k] - fluxo_acumulado[k - 1]))
         ELSE Pb(0, 0, 1)

\* anos_projeto when every cumulative value is negative; otherwise the first i with
\* fluxo_acumulado[i-1] < 0 <= fluxo_acumulado[i], interpolated; otherwise (for-else) 0
Payback(fluxo_acumulado) ==
    IF \A ano \in Anos : fluxo_acumulado[ano] < 0
    THEN Pb(anos_projeto, 0, 1)
    ELSE IF Cruzamentos(fluxo_acumulado) # {}
         THEN LET k == Primeiro(Cruzamentos(fluxo_acumulado))
              IN Pb(k - 1, Abs(fluxo_acumulado[k - 1]),
                    Abs(fluxo_acumulado[k] - fluxo_acumulado[k - 1]))
         ELSE Pb(0, 0, 1)

Resultado(vpl, fluxo_caixa, fluxo_caixa_descontado, investimento) ==
    [VPL |-> vpl,
     TIR |-> Tir(vpl, investimento),
     Payback |-> Payback(FluxoAcumulado(fluxo_caixa_descontado)),
     Fluxo_Caixa |-> fluxo_caixa,
     Fluxo_Caixa_Descontado |-> fluxo_caixa_descontado]

Descontar(fluxo_caixa, fluxo_caixa_descontado, investimento) ==
    Resultado(Vpl(fluxo_caixa_descontado), fluxo_caixa, fluxo_caixa_descontado, investimento)

Indicadores(fluxo_caixa, investimento) ==
    Descontar(fluxo_caixa, FluxoCaixaDescontado(fluxo_caixa), investimento)

calcular_indicadores(parametros) ==
    Indicadores(FluxoCaixa(parametros), parametros.investimento)

(***************************************************************************)
(* The numpy random source.  The Mersenne Twister is abstracted to a       *)
(* full-period congruential generator over 0..63: what the model keeps is  *)
(* that the source is one process-wide state, that seed() sets it, and     *)
(* that every draw reads and advances it.                                  *)
(***************************************************************************)
\* np.random.seed(s)
Semente(s) == s % 64

\* the state after one draw
Avanca(s) == (13 * s + 11) % 64

\* Variant: low + high * u.
UniformeSemSubtrair(low, high, s) == low + (high * Avanca(s)) \div 64

\* np.random.uniform(low, high): low + (high - low) * u, with u = Avanca(s)/64 in [0, 1)
Uniforme(low, high, s) == low + ((high - low) * Avanca(s)) \div 64

\* Variant: np.random.seed(42) left out.
EstadoSemSemear(atual) == atual

\* the state of the source when simular_monte_carlo starts drawing
EstadoAoIniciar(atual) == Semente(42)

\* "* 1000000  # Converter para US$": x is in hundredths of a million US$, the
\* result in thousands of US$
ConverterParaUSD(x) == x * 10

\* The five draws of one iteration, in the source's order, from state s.
Sorteio(cfg, s) ==
    LET s1 == Avanca(s)
        s2 == Avanca(s1)
        s3 == Avanca(s2)
        s4 == Avanca(s3)
    IN [parametros |->
            [preco |-> Uniforme(cfg.preco_min * 10, cfg.preco_max * 10, s),
             investimento |->
                 ConverterParaUSD(Uniforme(cfg.investimento_min * 100,
                                           cfg.investimento_max * 100, s1)),
             eficiencia |-> Uniforme(cfg.eficiencia_min * 100, cfg.eficiencia_max * 100, s2),
             custo |-> Uniforme(68, 104, s3),
             declinio |-> Uniforme(200, 1000, s4)],
        rng |-> Avanca(s4)]

\* Variant: 'Simulação': i.
IndiceDoLaco(k) == k

\* 'Simulação': i + 1
IndiceSimulacao(k) == k + 1

\* the dict appended to resultados
Linha(k, p, ind) ==
    [Simulacao |-> IndiceSimulacao(k),
     Preco |-> p.preco,
     Investimento |-> p.investimento,
     Eficiencia |-> p.eficiencia,
     Custo |-> p.custo,
     Declinio |-> p.declinio,
     VPL |-> ind.VPL,
     TIR |-> ind.TIR,
     Payback |-> ind.Payback]

(***************************************************************************)
(* The sidebar.  Each range slider is given two of its positions: its      *)
(* default and the end of its scale that widens the range.                 *)
(***************************************************************************)
NumSimulacoesValores == 1..MaxSimulacoes
PrecoMinValores == {40, 50}
PrecoMaxValores == {90, 100}
InvestimentoMinValores == {30, 36}
InvestimentoMaxValores == {63, 70}
EficienciaMinValores == {9, 10}
EficienciaMaxValores == {18, 20}

\* The widgets' default values (num_simulacoes at the low end of its scaled-down slider).
SlidersIniciais ==
    [num_simulacoes |-> 1,
     preco_min |-> 50, preco_max |-> 90,
     investimento_min |-> 36, investimento_max |-> 63,
     eficiencia_min |-> 10, eficiencia_max |-> 18]

Init ==
    /\ sliders = SlidersIniciais
    /\ sessao = Nenhum
    /\ rng \in 0..63          \* numpy seeds the source from the system at import
    /\ pc = "ocioso"
    /\ i = 0
    /\ resultados = <<>>
    /\ parametros_simulacao = Nenhum
    /\ indicadores = Nenhum

\* A widget is moved: the script reruns with the new value, the button not pressed.
MoverSlider ==
    /\ pc = "ocioso"
    /\ \/ \E v \in NumSimulacoesValores \ {sliders.num_simulacoes} :
            sliders' = [sliders EXCEPT !.num_simulacoes = v]
       \/ \E v \in PrecoMinValores \ {sliders.preco_min} :
            sliders' = [sliders EXCEPT !.preco_min = v]
       \/ \E v \in PrecoMaxValores \ {sliders.preco_max} :
            sliders' = [sliders EXCEPT !.preco_max = v]
       \/ \E v \in InvestimentoMinValores \ {sliders.investimento_min} :
            sliders' = [sliders EXCEPT !.investimento_min = v]
       \/ \E v \in InvestimentoMaxValores \ {sliders.investimento_max} :
            sliders' = [sliders EXCEPT !.investimento_max = v]
       \/ \E v \in EficienciaMinValores \ {sliders.eficiencia_min} :
            sliders' = [sliders EXCEPT !.eficiencia_min = v]
       \/ \E v \in EficienciaMaxValores \ {sliders.eficiencia_max} :
            sliders' = [sliders EXCEPT !.eficiencia_max = v]
    /\ UNCHANGED <<sessao, rng, pc, i, resultados, parametros_simulacao, indicadores>>

\* "Executar Simulação" is pressed: simular_monte_carlo(num_simulacoes) starts.
Executar ==
    /\ pc = "ocioso"
    /\ rng' = EstadoAoIniciar(rng)
    /\ resultados' = <<>>
    /\ i' = 0
    /\ pc' = "laco"
    /\ UNCHANGED <<sliders, sessao, parametros_simulacao, indicadores>>

\* One pass of "for i in range(num_simulacoes)".
Iteracao ==
    /\ pc = "laco"
    /\ i < sliders.num_simulacoes
    /\ LET d == Sorteio(sliders, rng)
           ind == calcular_indicadores(d.parametros)
       IN /\ rng' = d.rng
          /\ parametros_simulacao' = d.parametros
          /\ indicadores' = ind
          /\ resultados' = Append(resultados, Linha(i, d.parametros, ind))
    /\ i' = i + 1
    /\ UNCHANGED <<sliders, sessao, pc>>

\* The loop is over: the table is returned and stored in st.session_state.
Concluir ==
    /\ pc = "laco"
    /\ i = sliders.num_simulacoes
    /\ sessao' = [resultados |-> resultados, entradas |-> sliders]
    /\ pc' = "ocioso"
    /\ i' = 0
    /\ resultados' = <<>>
    /\ parametros_simulacao' = Nenhum
    /\ indicadores' = Nenhum
    /\ UNCHANGED <<sliders, rng>>

Next == MoverSlider \/ Executar \/ Iteracao \/ Concluir

Spec == Init /\ [][Next]_vars

(***************************************************************************)
(* calcular_indicadores on its own: one sample drawn from a grid over the  *)
(* widest ranges the sliders allow, then evaluated.                        *)
(***************************************************************************)
Grade(lo, hi, base) == {lo + (k * (hi - lo)) \div GradePassos : k \in 0..GradePassos} \cup {base}

GradeParametros ==
    [preco : Grade(400, 1000, preco_petroleo),
     investimento : {ConverterParaUSD(x) : x \in Grade(3000, 7000, investimento_total \div 10)},
     eficiencia : Grade(900, 2000, incremento_recuperacao),
     custo : Grade(68, 104, custo_operacional),
     declinio : Grade(200, 1000, taxa_declinio)]

InitAvaliar ==
    /\ sliders = SlidersIniciais
    /\ sessao = Nenhum
    /\ rng = 0
    /\ pc = "avaliar"
    /\ i = 0
    /\ resultados = <<>>
    /\ parametros_simulacao \in GradeParametros
    /\ indicadores = Nenhum

Avaliar ==
    /\ pc = "avaliar"
    /\ indicadores' = calcular_indicadores(parametros_simulacao)
    /\ pc' = "avaliado"
    /\ UNCHANGED <<sliders, sessao, rng, i, resultados, parametros_simulacao>>

NextAvaliar == Avaliar

SpecAvaliar == InitAvaliar /\ [][NextAvaliar]_vars

(***************************************************************************)
(* Properties.                                                             *)
(***************************************************************************)
TemTabela == sessao # Nenhum

\* the run is over and its table is about to be returned
LacoTerminado == pc = "laco" /\ i = sliders.num_simulacoes

Avaliado == pc = "avaliado"

\* simular_monte_carlo as a function of its inputs alone: the rows k+1.. drawn from state s
RECURSIVE LinhasDesde(_, _, _)
LinhasDesde(cfg, k, s) ==
    IF k >= cfg.num_simulacoes THEN <<>>
    ELSE LET d == Sorteio(cfg, s)
         IN <<Linha(k, d.parametros, calcular_indicadores(d.parametros))>>
            \o LinhasDesde(cfg, k + 1, d.rng)

TabelaDaSemente(cfg) == LinhasDesde(cfg, 0, Semente(42))

\* C1: the stored table of a run with num_simulacoes = n has exactly n rows and the
\* k-th row carries 'Simulação' = k, so the indices are 1..n without gap or duplicate.
C1_IndicesSequenciais ==
    TemTabela =>
        /\ Len(sessao.resultados) = sessao.entradas.num_simulacoes
        /\ \A k \in 1..Len(sessao.resultados) : sessao.resultados[k].Simulacao = k

C1_Witness ==
    /\ TemTabela
    /\ sessao.entradas.num_simulacoes = MaxSimulacoes
    /\ Len(sessao.resultados) >= 2
    /\ sessao.resultados[Len(sessao.resultados)].Simulacao = MaxSimulacoes

\* C2: a finished run's table depends on num_simulacoes and the ranges alone: it is the
\* table drawn from seed 42, whatever the source's state was when the run began, and it
\* equals the stored table of the previous run when that run had the same inputs.
C2_Reprodutivel ==
    LacoTerminado =>
        /\ resultados = TabelaDaSemente(sliders)
        /\ (TemTabela /\ sessao.entradas = sliders) => resultados = sessao.resultados

C2_Witness ==
    /\ LacoTerminado
    /\ TemTabela
    /\ sessao.entradas = sliders
    /\ Len(resultados) >= 2
    /\ resultados = sessao.resultados

PaybackVezesDen(pb) == pb.inteiro * pb.den + pb.num

\* C3: every evaluated sample has 0 <= payback <= anos_projeto.
C3_PaybackLimitado ==
    Avaliado =>
        /\ indicadores.Payback.den > 0
        /\ PaybackVezesDen(indicadores.Payback) >= 0
        /\ PaybackVezesDen(indicadores.Payback) <= anos_projeto * indicadores.Payback.den

C3_Witness ==
    /\ Avaliado
    /\ indicadores.VPL < 0
    /\ PaybackVezesDen(indicadores.Payback) = anos_projeto * indicadores.Payback.den

\* C4: VPL > 0 gives TIR <= 50, and VPL <= 0 gives TIR = 0 exactly.
C4_TirLimitada ==
    Avaliado =>
        /\ indicadores.TIR.den > 0
        /\ indicadores.VPL > 0 => indicadores.TIR.num <= 50 * indicadores.TIR.den
        /\ indicadores.VPL <= 0 => indicadores.TIR.num = 0

C4_Witness ==
    /\ Avaliado
    /\ indicadores.VPL > 0
    /\ indicadores.VPL * 15 + 12 * parametros_simulacao.investimento
          > 50 * parametros_simulacao.investimento
    /\ indicadores.TIR.num = 50 * indicadores.TIR.den

\* C5: with a decline rate > 0 the production of every year from 5 to anos_projeto is
\* strictly below the production of the year before.
C5_DeclinioEstrito ==
    (Avaliado /\ parametros_simulacao.declinio > 0) =>
        \A ano \in 5..anos_projeto :
            ProducaoAjustada(parametros_simulacao.eficiencia,
                             parametros_simulacao.declinio)[ano]
            < ProducaoAjustada(parametros_simulacao.eficiencia,
                               parametros_simulacao.declinio)[ano - 1]

C5_Witness ==
    /\ Avaliado
    /\ parametros_simulacao.declinio > 0
    /\ ProducaoAjustada(parametros_simulacao.eficiencia,
                        parametros_simulacao.declinio)[anos_projeto] > 0
    /\ ProducaoAjustada(parametros_simulacao.eficiencia,
                        parametros_simulacao.declinio)[anos_projeto]
       < ProducaoAjustada(parametros_simulacao.eficiencia,
                          parametros_simulacao.declinio)[4]

\* A row against the ranges cfg of its run, the investment range read as millions of US$.
LinhaNasFaixas(linha, cfg) ==
    /\ cfg.preco_min * 10 <= linha.Preco /\ linha.Preco <= cfg.preco_max * 10
    /\ cfg.investimento_min * 1000000 <= linha.Investimento * 1000
    /\ linha.Investimento * 1000 <= cfg.investimento_max * 1000000
    /\ cfg.eficiencia_min * 100 <= linha.Eficiencia
    /\ linha.Eficiencia <= cfg.eficiencia_max * 100
    /\ 68 <= linha.Custo /\ linha.Custo <= 104
    /\ 200 <= linha.Declinio /\ linha.Declinio <= 1000

\* The same, the investment range read as US$, as the sliders' numbers stand.
LinhaNasFaixasSemEscala(linha, cfg) ==
    /\ cfg.preco_min * 10 <= linha.Preco /\ linha.Preco <= cfg.preco_max * 10
    /\ cfg.investimento_min <= linha.Investimento * 1000
    /\ linha.Investimento * 1000 <= cfg.investimento_max
    /\ cfg.eficiencia_min * 100 <= linha.Eficiencia
    /\ linha.Eficiencia <= cfg.eficiencia_max * 100
    /\ 68 <= linha.Custo /\ linha.Custo <= 104
    /\ 200 <= linha.Declinio /\ linha.Declinio <= 1000

\* C6 (as amended): every recorded parameter lies in its range, the investment in
\* [investimento_min * 1,000,000, investimento_max * 1,000,000]: the sliders give the
\* investment range in millions of US$ and the driver multiplies the draw by 1,000,000.
C6_FaixasComEscala ==
    /\ \A k \in 1..Len(resultados) : LinhaNasFaixas(resultados[k], sliders)
    /\ TemTabela =>
         \A k \in 1..Len(sessao.resultados) :
             LinhaNasFaixas(sessao.resultados[k], sessao.entradas)

\* C6 (as claimed): the recorded investment lies in [investimento_min, investimento_max]
\* as supplied, no scaling applied.
C6_FaixasSemEscala ==
    /\ \A k \in 1..Len(resultados) : LinhaNasFaixasSemEscala(resultados[k], sliders)
    /\ TemTabela =>
         \A k \in 1..Len(sessao.resultados) :
             LinhaNasFaixasSemEscala(sessao.resultados[k], sessao.entradas)

C6_Witness ==
    /\ TemTabela
    /\ \E k \in 1..Len(sessao.resultados) :
          /\ sessao.resultados[k].Investimento * 1000 > sessao.entradas.investimento_max
          /\ sessao.resultados[k].Investimento * 1000
                > sessao.entradas.investimento_min * 1000000
          /\ sessao.resultados[k].Preco > sessao.entradas.preco_min * 10

\* C7: the cash flow of year 0 is minus half of the sampled investment; for an
\* investment of 45,000,000 it is -22,500,000.
C7_FluxoAnoZero ==
    Avaliado =>
        /\ 2 * indicadores.Fluxo_Caixa[0] = -parametros_simulacao.investimento
        /\ parametros_simulacao.investimento = 45000 => indicadores.Fluxo_Caixa[0] = -22500

C7_Witness ==
    /\ Avaliado
    /\ parametros_simulacao.investimento = 45000
    /\ indicadores.Fluxo_Caixa[0] = -22500

\* C8: over cum = the cumulative discounted cash flow: (1) cum negative in every year
\* gives payback = anos_projeto; (2) otherwise, with a year i >= 1 where cum[i-1] < 0 and
\* cum[i] >= 0, the first such i gives payback = (i-1) + |cum[i-1]| / |cum[i] - cum[i-1]|,
\* which lies in (i-1, i]; (3) otherwise payback = 0.
C8_PaybackTresCasos ==
    Avaliado =>
        LET cum == FluxoAcumulado(indicadores.Fluxo_Caixa_Descontado)
            pb == indicadores.Payback
            cruza(a) == a >= 1 /\ cum[a - 1] < 0 /\ cum[a] >= 0
        IN /\ (\A ano \in Anos : cum[ano] < 0) =>
                  pb.inteiro = anos_projeto /\ pb.num = 0
           /\ \A a \in Anos :
                  ((\E ano \in Anos : cum[ano] >= 0)
                   /\ cruza(a) /\ \A b \in 0..(a - 1) : ~cruza(b)) =>
                      /\ pb.inteiro = a - 1
                      /\ pb.num = Abs(cum[a - 1])
                      /\ pb.den = Abs(cum[a] - cum[a - 1])
                      /\ 0 < pb.num /\ pb.num <= pb.den
           /\ ((\E ano \in Anos : cum[ano] >= 0) /\ \A a \in Anos : ~cruza(a)) =>
                  pb.inteiro = 0 /\ pb.num = 0

C8_Witness ==
    /\ Avaliado
    /\ indicadores.Payback.inteiro >= 1
    /\ indicadores.Payback.inteiro < anos_projeto
    /\ 0 < indicadores.Payback.num
    /\ indicadores.Payback.num < indicadores.Payback.den
    /\ FluxoAcumulado(indicadores.Fluxo_Caixa_Descontado)[indicadores.Payback.inteiro] < 0
    /\ FluxoAcumulado(indicadores.Fluxo_Caixa_Descontado)[indicadores.Payback.inteiro + 1] >= 0

\* C9: VPL > 0 implies payback < anos_projeto.
C9_VplPositivoRecupera ==
    (Avaliado /\ indicadores.VPL > 0) =>
        PaybackVezesDen(indicadores.Payback) < anos_projeto * indicadores.Payback.den

C9_Witness ==
    /\ Avaliado
    /\ indicadores.VPL > 0
    /\ indicadores.Payback.inteiro >= 9
    /\ PaybackVezesDen(indicadores.Payback) < anos_projeto * indicadores.Payback.den

\* C10: with investment > 0 the TIR is 0 or lies in (12, 50], never in (0, 12]; so
\* TIR < taxa_minima_atratividade holds exactly when VPL <= 0.
C10_TirForaDoIntervalo ==
    (Avaliado /\ parametros_simulacao.investimento > 0) =>
        /\ \/ indicadores.TIR.num = 0
           \/ /\ indicadores.TIR.num > taxa_minima_atratividade * indicadores.TIR.den
              /\ indicadores.TIR.num <= 50 * indicadores.TIR.den
        /\ (indicadores.TIR.num < taxa_minima_atratividade * indicadores.TIR.den)
               <=> (indicadores.VPL <= 0)

C10_Witness ==
    /\ Avaliado
    /\ parametros_simulacao.investimento > 0
    /\ indicadores.VPL > 0
    /\ indicadores.TIR.num > taxa_minima_atratividade * indicadores.TIR.den
    /\ indicadores.TIR.num < 50 * indicadores.TIR.den

====
